---- MODULE Spec2Model ----
(***************************************************************************)
(* Model of x64_dbg_dbg/symbolinfo.cpp: the symbol layer of the debugger.  *)
(*                                                                         *)
(* The symbol provider (dbghelp behind the Safe* wrappers), the module     *)
(* collaborator (ModNameFromAddr), the label store (LabelGet) and the      *)
(* console (dputs/dprintf) are external.  Every outcome of an external     *)
(* call is an input of the action that makes the call; the provider state  *)
(* the file mutates (search path, loaded symbol tables) is kept in         *)
(* variables.  All operations run on the debugger's single command thread, *)
(* so an operation starts only when no other one is in progress.           *)
(***************************************************************************)
EXTENDS Integers, Sequences, FiniteSets, TLC

VARIABLES
    provModules,  \* provider: module bases in the provider's enumeration order
    searchPath,   \* provider: the current symbol search path
    symLoaded,    \* provider: bases whose symbol table is loaded
    pc,           \* command thread: "idle", or the position inside SymDownloadAllSymbols
    op,           \* the operation that ran last (or is running)
    in,           \* its inputs: arguments and the outcomes of its external calls
    out,          \* its result
    frame,        \* locals of SymDownloadAllSymbols: modList, loop index, oldSearchPath
    calls,        \* external calls made by the operation, in order
    console       \* lines written with dputs/dprintf by the operation

vars == <<provModules, searchPath, symLoaded, pc, op, in, out, frame, calls, console>>

(***************************************************************************)
(* Bounds of the model.                                                    *)
(***************************************************************************)
MaxModules == 2     \* modules the provider reports
MaxSymbols == 2     \* symbols the provider reports for one module
MaxList == 1        \* records already in the caller's vector

Bases == 1..MaxModules

\* The provider's enumeration order of the bases: not ascending, so that a
\* reordering is visible (<<2, 1>>, <<2, 3, 1>>, ...).
ModuleOrder == [i \in 1..MaxModules |-> (i % MaxModules) + 1]

NULL == "NULL"

(***************************************************************************)
(* Console lines and external calls.                                       *)
(***************************************************************************)
Line(msg, base, name) == [msg |-> msg, base |-> base, name |-> name]

Call(fn, base, path, ok) == [fn |-> fn, base |-> base, path |-> path, ok |-> ok]

(***************************************************************************)
(* SymGetModuleList                                                        *)
(***************************************************************************)
\* The module collaborator: `unnamed` are the bases it resolves no name for.
ModNameFromAddr(addr, unnamed) ==
    IF addr \in unnamed
    THEN [ok |-> FALSE, name |-> <<>>]
    ELSE [ok |-> TRUE, name |-> <<"mod", addr>>]

\* Faulty variant: a module without a name is dropped from the list.
EnumModulesDropUnnamed(BaseOfDll, unnamed, List) ==
    LET r == ModNameFromAddr(BaseOfDll, unnamed)
    IN  [ret |-> TRUE,
         List |-> IF r.ok THEN Append(List, [base |-> BaseOfDll, name |-> r.name])
                  ELSE List]

\* The lambda handed to the provider: one record per module, an empty name
\* when none is found, and TRUE (continue) in every case.
EnumModules(BaseOfDll, unnamed, List) ==
    LET r == ModNameFromAddr(BaseOfDll, unnamed)
        curModule == [base |-> BaseOfDll,
                      name |-> IF r.ok THEN r.name ELSE <<>>]
    IN  [ret |-> TRUE, List |-> Append(List, curModule)]

\* The provider's enumeration: the callback once per module, in its order,
\* until the callback returns FALSE.
RECURSIVE SafeSymEnumerateModules64(_, _, _)
SafeSymEnumerateModules64(mods, unnamed, List) ==
    IF mods = <<>> THEN List
    ELSE LET r == EnumModules(Head(mods), unnamed, List)
         IN  IF r.ret THEN SafeSymEnumerateModules64(Tail(mods), unnamed, r.List)
             ELSE r.List

\* enumOk: the provider call succeeds; when it fails it has visited the
\* first k modules before failing.
SymGetModuleList(List, mods, unnamed, enumOk, k) ==
    LET visited == IF enumOk THEN mods ELSE SubSeq(mods, 1, k)
    IN  [ret |-> enumOk,
         List |-> SafeSymEnumerateModules64(visited, unnamed, List),
         calls |-> <<Call("SymEnumerateModules64", 0, "", enumOk)>>,
         console |-> IF enumOk THEN <<>>
                     ELSE <<Line("SymEnumerateModules64 failed!", 0, <<>>)>>]

\* What the GUI receives from SymUpdateModuleList.
SymUpdateModuleList(mods, unnamed, enumOk, k) ==
    LET r == SymGetModuleList(<<>>, mods, unnamed, enumOk, k)
    IN  IF ~r.ret THEN [count |-> 0, data |-> <<>>]
        ELSE [count |-> Len(r.List), data |-> r.List]

(***************************************************************************)
(* SymDownloadAllSymbols                                                   *)
(***************************************************************************)
szSymbolCachePath == "cache"

DefaultSymbolStore == "http://msdl.microsoft.com/download/symbols"

StoreOrDefault(SymbolStore) ==
    IF SymbolStore = NULL THEN DefaultSymbolStore ELSE SymbolStore

CustomSearchPath(SymbolStore) ==
    "SRV*" \o szSymbolCachePath \o "*" \o StoreOrDefault(SymbolStore)

\* Faulty variant: the empty snapshot is not skipped.
SkipLoadingNever(modList) == FALSE

\* "Skip loading if there aren't any found modules"
SkipLoading(modList) == Len(modList) <= 0

\* Per-module outcomes of the three external calls of one loop iteration.
Outcomes == {"nofile", "nounload", "noload", "ok"}

\* One iteration of the reload loop for `module`: the calls it makes, the
\* lines it prints and the provider's symbol tables afterwards.
ReloadModule(module, outcome, loaded) ==
    LET b == module.base
        hello == Line("Downloading symbols for", 0, module.name)
        file == Call("GetModuleFileNameExW", b, "", outcome # "nofile")
        unload == Call("SymUnloadModule64", b, "", outcome # "nounload")
        load == Call("SymLoadModuleEx", b, "", outcome # "noload")
    IN  IF outcome = "nofile"
        THEN [calls |-> <<file>>, loaded |-> loaded, failed |-> TRUE,
              console |-> <<hello, Line("GetModuleFileNameExW failed!", b, <<>>)>>]
        ELSE IF outcome = "nounload"
        THEN [calls |-> <<file, unload>>, loaded |-> loaded, failed |-> TRUE,
              console |-> <<hello, Line("SymUnloadModule64 failed!", b, <<>>)>>]
        ELSE IF outcome = "noload"
        THEN [calls |-> <<file, unload, load>>, loaded |-> loaded \ {b}, failed |-> TRUE,
              console |-> <<hello, Line("SymLoadModuleEx failed!", b, <<>>)>>]
        ELSE [calls |-> <<file, unload, load>>, loaded |-> (loaded \ {b}) \cup {b},
              failed |-> FALSE, console |-> <<hello>>]

\* Faulty variant: a failed step ends the whole function (no restore).
LoopNextReturn(i, n, failed) ==
    IF failed THEN "done" ELSE IF i < n THEN "loop" ELSE "restore"

\* Faulty variant: a failed step ends the loop (the remaining modules are skipped).
LoopNextBreak(i, n, failed) ==
    IF failed \/ i >= n THEN "restore" ELSE "loop"

\* Where control goes after iteration i of n: `continue` on failure, so the
\* next module if there is one, else the restore after the loop.
LoopNext(i, n, failed) == IF i < n THEN "loop" ELSE "restore"

\* The external outcomes SymDownloadAllSymbols meets before its loop: the
\* enumeration fails after k modules, or succeeds and then the search path
\* cannot be read, or the custom one is rejected, or all three succeed.
BeginOutcomes(n) ==
    {[enumOk |-> FALSE, k |-> k, getOk |-> FALSE, setOk |-> FALSE] : k \in 0..n}
    \cup {[enumOk |-> TRUE, k |-> n, getOk |-> g, setOk |-> g /\ s] :
              g \in BOOLEAN, s \in BOOLEAN}

\* Lines 116-149: snapshot, backup of the search path, custom search path.
DlBegin ==
    /\ pc = "idle"
    /\ \E SymbolStore \in {NULL, "http://s"}, unnamed \in SUBSET Bases,
          o \in BeginOutcomes(Len(provModules)) :
        LET r == SymGetModuleList(<<>>, provModules, unnamed, o.enumOk, o.k)
            get == Call("SymGetSearchPath", 0, "", o.getOk)
            custom == CustomSearchPath(SymbolStore)
            set == Call("SymSetSearchPath", 0, custom, o.setOk)
        IN  /\ op' = "SymDownloadAllSymbols"
            /\ in' = [SymbolStore |-> SymbolStore, searchPath |-> searchPath,
                      symLoaded |-> symLoaded]
            /\ out' = NULL
            /\ UNCHANGED <<provModules, symLoaded>>
            /\ IF ~r.ret \/ SkipLoading(r.List)
               THEN /\ pc' = "done"
                    /\ frame' = [modList |-> r.List, i |-> 0, oldSearchPath |-> NULL]
                    /\ calls' = r.calls
                    /\ console' = r.console
                    /\ UNCHANGED searchPath
               ELSE IF ~o.getOk
               THEN /\ pc' = "done"
                    /\ frame' = [modList |-> r.List, i |-> 0, oldSearchPath |-> NULL]
                    /\ calls' = r.calls \o <<get>>
                    /\ console' = r.console \o <<Line("SymGetSearchPath failed!", 0, <<>>)>>
                    /\ UNCHANGED searchPath
               ELSE IF ~o.setOk
               THEN /\ pc' = "done"
                    /\ frame' = [modList |-> r.List, i |-> 0, oldSearchPath |-> searchPath]
                    /\ calls' = r.calls \o <<get, set>>
                    /\ console' = r.console \o <<Line("SymSetSearchPath (1) failed!", 0, <<>>)>>
                    /\ UNCHANGED searchPath
               ELSE /\ pc' = IF Len(r.List) >= 1 THEN "loop" ELSE "restore"
                    /\ frame' = [modList |-> r.List, i |-> 1, oldSearchPath |-> searchPath]
                    /\ calls' = r.calls \o <<get, set>>
                    /\ console' = r.console
                    /\ searchPath' = custom

\* Lines 152-174: one iteration of the loop over modList.
DlModule ==
    /\ pc = "loop"
    /\ \E outcome \in Outcomes :
        LET r == ReloadModule(frame.modList[frame.i], outcome, symLoaded)
        IN  /\ symLoaded' = r.loaded
            /\ calls' = calls \o r.calls
            /\ console' = console \o r.console
            /\ pc' = LoopNext(frame.i, Len(frame.modList), r.failed)
            /\ frame' = [frame EXCEPT !.i = frame.i + 1]
    /\ UNCHANGED <<provModules, searchPath, op, in, out>>

\* Faulty variant: the custom path is left in place.
RestoredPathKeep(old, current) == current

\* The path handed to the second SymSetSearchPath.
RestoredPath(old, current) == old

\* Lines 176-178: restore the old search path.
DlRestore ==
    /\ pc = "restore"
    /\ \E setOk \in BOOLEAN :
        LET p == RestoredPath(frame.oldSearchPath, searchPath)
        IN  /\ calls' = Append(calls, Call("SymSetSearchPath", 0, p, setOk))
            /\ searchPath' = IF setOk THEN p ELSE searchPath
            /\ console' = IF setOk THEN console
                          ELSE Append(console, Line("SymSetSearchPath (2) failed!", 0, <<>>))
    /\ pc' = "done"
    /\ UNCHANGED <<provModules, symLoaded, op, in, out, frame>>

\* The provider's enumeration succeeds, or fails after k modules.
EnumOutcomes(n) ==
    {[enumOk |-> FALSE, k |-> k] : k \in 0..n} \cup {[enumOk |-> TRUE, k |-> n]}

\* SymGetModuleList called on a vector that may already hold records.
Lists == {<<>>} \cup
         {[i \in 1..n |-> [base |-> 0, name |-> <<"old">>]] : n \in 1..MaxList}

DoGetModuleList ==
    /\ pc = "idle"
    /\ \E List \in Lists, unnamed \in SUBSET Bases,
          o \in EnumOutcomes(Len(provModules)) :
        LET r == SymGetModuleList(List, provModules, unnamed, o.enumOk, o.k)
        IN  /\ op' = "SymGetModuleList"
            /\ in' = [List |-> List, unnamed |-> unnamed, enumOk |-> o.enumOk, k |-> o.k]
            /\ out' = [ret |-> r.ret, List |-> r.List]
            /\ calls' = r.calls
            /\ console' = r.console
    /\ pc' = "done"
    /\ UNCHANGED <<provModules, searchPath, symLoaded, frame>>

DoUpdateModuleList ==
    /\ pc = "idle"
    /\ \E unnamed \in SUBSET Bases, o \in EnumOutcomes(Len(provModules)) :
        LET r == SymGetModuleList(<<>>, provModules, unnamed, o.enumOk, o.k)
        IN  /\ op' = "SymUpdateModuleList"
            /\ in' = [unnamed |-> unnamed, enumOk |-> o.enumOk, k |-> o.k]
            /\ out' = SymUpdateModuleList(provModules, unnamed, o.enumOk, o.k)
            /\ calls' = r.calls
            /\ console' = r.console
    /\ pc' = "done"
    /\ UNCHANGED <<provModules, searchPath, symLoaded, frame>>

\* The operation has returned: its locals and what was observed of it are
\* dropped, the provider keeps its state.
Return ==
    /\ pc = "done"
    /\ pc' = "idle"
    /\ op' = "none"
    /\ in' = NULL
    /\ out' = NULL
    /\ frame' = [modList |-> <<>>, i |-> 0, oldSearchPath |-> NULL]
    /\ calls' = <<>>
    /\ console' = <<>>
    /\ UNCHANGED <<provModules, searchPath, symLoaded>>

(***************************************************************************)
(* Strings are sequences of characters, as in C.                           *)
(***************************************************************************)
\* strstr(haystack, needle) # NULL
RECURSIVE strstr(_, _)
strstr(h, n) ==
    IF Len(h) < Len(n) THEN FALSE
    ELSE IF SubSeq(h, 1, Len(n)) = n THEN TRUE
    ELSE strstr(Tail(h), n)

\* An optional string: a char* that may be nullptr.
Null == [null |-> TRUE, text |-> <<>>]

Str(t) == [null |-> FALSE, text |-> t]

\* What the provider's undecoration makes of a name: "fail" (FALSE), "same"
\* (TRUE, the name itself: it was not decorated) or "diff" (TRUE, a
\* demangled text).
UndOutcomes == {"fail", "same", "diff"}

Demangled == <<"f", "(", ")">>

SafeUnDecorateSymbolName(Name, und) ==
    IF und = "fail" THEN [ok |-> FALSE, text |-> <<>>]
    ELSE IF und = "same" THEN [ok |-> TRUE, text |-> Name]
    ELSE [ok |-> TRUE, text |-> Demangled]

(***************************************************************************)
(* SymEnum / EnumSymbols                                                   *)
(***************************************************************************)
Ordinal == <<"O", "r", "d", "i", "n", "a", "l">>

\* Faulty variant: every ordinal name is skipped, wherever it points.
SkipBadOrdinalAnyAddress(SymInfo) == strstr(SymInfo.Name, Ordinal)

\* "Skip bad ordinals": the name holds "Ordinal" and the symbol points to
\* the module base.
SkipBadOrdinal(SymInfo) ==
    strstr(SymInfo.Name, Ordinal) /\ SymInfo.Address = SymInfo.ModBase

\* Faulty variant: the comparison with the decorated name is missing.
UndecoratedSymbolNoCompare(decorated, u) ==
    IF ~u.ok THEN Null ELSE Str(u.text)

\* curSymbol.undecoratedSymbol: freed and nullptr when the undecoration
\* fails or gives the decorated name back.
UndecoratedSymbol(decorated, u) ==
    IF ~u.ok THEN Null
    ELSE IF decorated = u.text THEN Null
    ELSE Str(u.text)

\* Faulty variant: the sink's answer is handed back to the provider.
EnumSymbolsReturnsSink(SymInfo, und, sinkRet) ==
    IF SkipBadOrdinal(SymInfo) THEN [ret |-> TRUE, sunk |-> <<>>]
    ELSE [ret |-> sinkRet,
          sunk |-> <<[addr |-> SymInfo.Address,
                      decoratedSymbol |-> SymInfo.Name,
                      undecoratedSymbol |->
                          UndecoratedSymbol(SymInfo.Name,
                              SafeUnDecorateSymbolName(SymInfo.Name, und))]>>]

\* The callback handed to the provider: the records it pushes to the sink
\* for one symbol, and its return value (TRUE: continue).  sinkRet is what
\* the sink answers; the callback does not look at it.
EnumSymbols(SymInfo, und, sinkRet) ==
    IF SkipBadOrdinal(SymInfo) THEN [ret |-> TRUE, sunk |-> <<>>]
    ELSE LET curSymbol ==
                 [addr |-> SymInfo.Address,
                  decoratedSymbol |-> SymInfo.Name,
                  undecoratedSymbol |->
                      UndecoratedSymbol(SymInfo.Name,
                          SafeUnDecorateSymbolName(SymInfo.Name, und))]
         IN  [ret |-> TRUE, sunk |-> <<curSymbol>>]

\* The provider's enumeration: the callback once per symbol, in its order,
\* until the callback returns FALSE.
RECURSIVE SafeSymEnumSymbols(_, _)
SafeSymEnumSymbols(syms, sinkRet) ==
    IF syms = <<>> THEN <<>>
    ELSE LET r == EnumSymbols(Head(syms).info, Head(syms).und, sinkRet)
         IN  IF r.ret THEN r.sunk \o SafeSymEnumSymbols(Tail(syms), sinkRet)
             ELSE r.sunk

\* enumOk: the provider call succeeds; when it fails it has visited the
\* first k symbols before failing.
SymEnum(syms, sinkRet, enumOk, k) ==
    LET visited == IF enumOk THEN syms ELSE SubSeq(syms, 1, k)
    IN  [sunk |-> SafeSymEnumSymbols(visited, sinkRet),
         console |-> IF enumOk THEN <<>>
                     ELSE <<Line("SymEnumSymbols failed!", 0, <<>>)>>]

\* Names the provider reports: an ordinal export, a name holding "Ordinal"
\* inside, a lower-case look-alike, a decorated C++ name.
SymbolNames ==
    { <<"O", "r", "d", "i", "n", "a", "l", "1">>,
      <<"x", "O", "r", "d", "i", "n", "a", "l">>,
      <<"o", "r", "d", "i", "n", "a", "l", "1">>,
      <<"?", "f", "@", "@">> }

\* The symbols of the module at Base: at the base itself or behind it.
SymbolsAt(Base) ==
    [info : [Name : SymbolNames, Address : {Base, Base + 1}, ModBase : {Base}],
     und : UndOutcomes]

RECURSIVE SeqsUpTo(_, _)
SeqsUpTo(S, n) ==
    IF n = 0 THEN {<<>>}
    ELSE LET shorter == SeqsUpTo(S, n - 1)
         IN  shorter \cup {Append(q, x) : q \in {t \in shorter : Len(t) = n - 1}, x \in S}

DoSymEnum ==
    /\ pc = "idle"
    /\ \E Base \in {16}, sinkRet \in BOOLEAN :
       \E syms \in SeqsUpTo(SymbolsAt(Base), MaxSymbols) :
       \E o \in EnumOutcomes(Len(syms)) :
        LET r == SymEnum(syms, sinkRet, o.enumOk, o.k)
        IN  /\ op' = "SymEnum"
            /\ in' = [Base |-> Base, syms |-> syms, sinkRet |-> sinkRet,
                      enumOk |-> o.enumOk, k |-> o.k]
            /\ out' = [sunk |-> r.sunk]
            /\ calls' = <<Call("SymEnumSymbols", Base, "*", o.enumOk)>>
            /\ console' = r.console
    /\ pc' = "done"
    /\ UNCHANGED <<provModules, searchPath, symLoaded, frame>>

(***************************************************************************)
(* SymGetSymbolicName                                                      *)
(***************************************************************************)
\* symbol->MaxNameLen: MAX_LABEL_SIZE in the program, scaled down here to
\* the lengths of the model's names.
MaxNameLen == 4

\* "Terminate the string for sanity": Name[MaxNameLen - 1] = '\0'.
TerminateName(Name) ==
    IF Len(Name) > MaxNameLen - 1 THEN SubSeq(Name, 1, MaxNameLen - 1) ELSE Name

\* Faulty variant: the nearest symbol is taken whatever its displacement.
ExactHitAnyDisplacement(sym) == sym.ok

\* The provider found a symbol and it starts at the queried address.
ExactHit(sym) == sym.ok /\ sym.displacement = 0

\* The label of a provider symbol: undecorated when the toggle is set and
\* the undecoration succeeds, else the raw name.
SymbolLabel(sym, bUndecorateSymbolNames, und) ==
    LET name == TerminateName(sym.Name)
        u == SafeUnDecorateSymbolName(name, und)
    IN  IF ~bUndecorateSymbolNames \/ ~u.ok THEN name ELSE u.text

\* Faulty variant: the provider is asked first, the label store only without a hit.
BaseLabelProviderFirst(lab, sym, bUndecorateSymbolNames, und) ==
    IF ExactHit(sym)
    THEN [found |-> TRUE,
          label |-> SymbolLabel(sym, bUndecorateSymbolNames, und),
          calls |-> <<"SafeSymFromAddr">>]
    ELSE [found |-> ~lab.null, label |-> lab.text,
          calls |-> <<"SafeSymFromAddr", "LabelGet">>]

\* Lines 214-241: the label to render, or none (return nullptr).
BaseLabel(lab, sym, bUndecorateSymbolNames, und) ==
    IF ~lab.null
    THEN [found |-> TRUE, label |-> lab.text, calls |-> <<"LabelGet">>]
    ELSE IF ~ExactHit(sym)
    THEN [found |-> FALSE, label |-> <<>>, calls |-> <<"LabelGet", "SafeSymFromAddr">>]
    ELSE [found |-> TRUE,
          label |-> SymbolLabel(sym, bUndecorateSymbolNames, und),
          calls |-> <<"LabelGet", "SafeSymFromAddr">>
                    \o (IF bUndecorateSymbolNames
                        THEN <<"SafeUnDecorateSymbolName">> ELSE <<>>)]

\* Faulty variant: the bracket form is used although the module is known.
RenderAlwaysBrackets(mod, label) == <<"<">> \o label \o <<">">>

\* Lines 243-252: "%s.%s" with the module name, "<%s>" without one.
Render(mod, label) ==
    IF mod.ok THEN mod.name \o <<".">> \o label
    ELSE <<"<">> \o label \o <<">">>

SymGetSymbolicName(lab, sym, bUndecorateSymbolNames, und, mod) ==
    LET b == BaseLabel(lab, sym, bUndecorateSymbolNames, und)
    IN  IF ~b.found THEN [ret |-> Null, calls |-> b.calls]
        ELSE [ret |-> Str(Render(mod, b.label)),
              calls |-> Append(b.calls, "ModNameFromAddr")]

\* The longest name the provider can put into the buffer.
LongName == [i \in 1..MaxNameLen |-> "n"]

\* What the provider's lookup by address answers.
SymFromAddrAnswers ==
    {[ok |-> FALSE, Name |-> <<>>, displacement |-> 0]}
    \cup [ok : {TRUE}, Name : {<<"?", "f">>, <<"g">>, LongName}, displacement : {0, 8}]

DoGetSymbolicName ==
    /\ pc = "idle"
    /\ \E Address \in {4096, 4104}, lab \in {Null, Str(<<"L", "b">>)},
          sym \in SymFromAddrAnswers, bUndecorateSymbolNames \in BOOLEAN,
          und \in UndOutcomes,
          mod \in {[ok |-> FALSE, name |-> <<>>], [ok |-> TRUE, name |-> <<"m", "o", "d">>]} :
        LET r == SymGetSymbolicName(lab, sym, bUndecorateSymbolNames, und, mod)
        IN  /\ op' = "SymGetSymbolicName"
            /\ in' = [Address |-> Address, lab |-> lab, sym |-> sym,
                      bUndecorateSymbolNames |-> bUndecorateSymbolNames,
                      und |-> und, mod |-> mod]
            /\ out' = r.ret
            /\ calls' = r.calls
            /\ console' = <<>>
    /\ pc' = "done"
    /\ UNCHANGED <<provModules, searchPath, symLoaded, frame>>

(***************************************************************************)
(* SymGetSourceLine                                                        *)
(***************************************************************************)
\* StringUtils::Utf16ToUtf8 on the model's characters: an ASCII unit is one
\* byte, U+00E9 is the two bytes C3 A9.
RECURSIVE Utf16ToUtf8(_)
Utf16ToUtf8(w) ==
    IF w = <<>> THEN <<>>
    ELSE (IF Head(w) = "U+00E9" THEN <<"0xC3", "0xA9">> ELSE <<Head(w)>>)
         \o Utf16ToUtf8(Tail(w))

\* std::string operator[] at a 0-based index up to size(): the character,
\* or '\0' at size().
At(str, i) == IF i < Len(str) THEN str[i + 1] ELSE "\\0"

\* Faulty variant: a drive letter and a colon are enough.
IsFullPathDriveOnly(NewFile, ub) ==
    IF Len(NewFile) = 0 THEN ub ELSE At(NewFile, 1) = ":"

\* "Check if it was a full path": NewFile[1] == ':' && NewFile[2] == '\\'.
\* On an empty string NewFile[1] reads past size(): the outcome of that
\* read is ub.
IsFullPath(NewFile, ub) ==
    IF Len(NewFile) = 0 THEN ub
    ELSE At(NewFile, 1) = ":" /\ At(NewFile, 2) = "\\"

\* strrchr(str, ch): the 1-based position of the last ch, 0 when none.
RECURSIVE strrchr(_, _)
strrchr(str, ch) ==
    IF str = <<>> THEN 0
    ELSE IF str[Len(str)] = ch THEN Len(str)
    ELSE strrchr(SubSeq(str, 1, Len(str) - 1), ch)

\* Faulty variant: the file name of the pdb is not stripped.
PdbDirectoryKeepName(LoadedPdbName) == LoadedPdbName

\* "Strip the name, leaving only the file directory": cut behind the last
\* backslash; a path without one stays whole.
PdbDirectory(LoadedPdbName) ==
    LET p == strrchr(LoadedPdbName, "\\")
    IN  IF p # 0 THEN SubSeq(LoadedPdbName, 1, p) ELSE LoadedPdbName

NoLine == [set |-> FALSE, value |-> 0]

SymGetSourceLine(i) ==
    IF ~i.lineOk
    THEN [ret |-> FALSE, FileName |-> Null, Line |-> NoLine,
          calls |-> <<"SymGetLineFromAddrW64">>]
    ELSE
      LET NewFile == Utf16ToUtf8(i.FileName)
          line == IF i.wantLine THEN [set |-> TRUE, value |-> i.LineNumber] ELSE NoLine
      IN  IF ~i.wantFile
          THEN [ret |-> TRUE, FileName |-> Null, Line |-> line,
                calls |-> <<"SymGetLineFromAddrW64">>]
          ELSE IF IsFullPath(NewFile, i.ub)
          THEN [ret |-> TRUE, FileName |-> Str(NewFile), Line |-> line,
                calls |-> <<"SymGetLineFromAddrW64">>]
          ELSE IF ~i.modOk
          THEN [ret |-> FALSE, FileName |-> Null, Line |-> line,
                calls |-> <<"SymGetLineFromAddrW64", "SafeSymGetModuleInfo64">>]
          ELSE [ret |-> TRUE,
                FileName |-> Str(PdbDirectory(i.LoadedPdbName) \o NewFile),
                Line |-> line,
                calls |-> <<"SymGetLineFromAddrW64", "SafeSymGetModuleInfo64">>]

\* File names the provider reports (UTF-16 units).
ReportedFiles ==
    { <<"C", ":", "\\", "s", "r", "c", "\\", "f", "o", "o", ".", "c">>,
      <<"f", "o", "o", ".", "c">>,
      <<"C", ":", "f", "o", "o", ".", "c">>,
      <<".", "\\", "a", ".", "c">>,
      <<"U+00E9", ".", "c">>,
      <<"C", ":">>,
      <<"f">>,
      <<>> }

\* Debug-file paths of the module.
PdbNames ==
    { <<"C", ":", "\\", "s", "y", "m", "\\", "a", "p", "p", ".", "p", "d", "b">>,
      <<"a", "p", "p", ".", "p", "d", "b">>,
      <<"C", ":", "\\">>,
      <<>> }

SourceLineInputs ==
    [lineOk : BOOLEAN, FileName : ReportedFiles, LineNumber : {1, 42},
     wantFile : BOOLEAN, wantLine : BOOLEAN,
     modOk : BOOLEAN, LoadedPdbName : PdbNames, ub : BOOLEAN]

DoGetSourceLine ==
    /\ pc = "idle"
    /\ \E i \in SourceLineInputs :
        LET r == SymGetSourceLine(i)
        IN  /\ op' = "SymGetSourceLine"
            /\ in' = i
            /\ out' = [ret |-> r.ret, FileName |-> r.FileName, Line |-> r.Line]
            /\ calls' = r.calls
            /\ console' = <<>>
    /\ pc' = "done"
    /\ UNCHANGED <<provModules, searchPath, symLoaded, frame>>

NoFrame == [modList |-> <<>>, i |-> 0, oldSearchPath |-> NULL]

Init ==
    /\ provModules \in {SubSeq(ModuleOrder, 1, n) : n \in 0..MaxModules}
    /\ searchPath = "C:\\symbols"
    /\ symLoaded \in SUBSET {provModules[i] : i \in 1..Len(provModules)}
    /\ pc = "idle"
    /\ op = "none"
    /\ in = NULL
    /\ out = NULL
    /\ frame = NoFrame
    /\ calls = <<>>
    /\ console = <<>>

\* No module is loaded: the state in which the operations that take all
\* they read as arguments and lookup results are exercised.
InitNoModules ==
    /\ provModules = <<>>
    /\ searchPath = "C:\\symbols"
    /\ symLoaded = {}
    /\ pc = "idle"
    /\ op = "none"
    /\ in = NULL
    /\ out = NULL
    /\ frame = NoFrame
    /\ calls = <<>>
    /\ console = <<>>

Next ==
    \/ DlBegin
    \/ DlModule
    \/ DlRestore
    \/ DoGetModuleList
    \/ DoUpdateModuleList
    \/ Return

Spec == Init /\ [][Next]_vars

NextEnum == DoSymEnum \/ Return

SpecEnum == InitNoModules /\ [][NextEnum]_vars

NextName == DoGetSymbolicName \/ Return

SpecName == InitNoModules /\ [][NextName]_vars

NextLine == DoGetSourceLine \/ Return

SpecLine == InitNoModules /\ [][NextLine]_vars

(***************************************************************************)
(* Properties of SymDownloadAllSymbols and SymGetModuleList (under Spec).  *)
(***************************************************************************)
DlDone == pc = "done" /\ op = "SymDownloadAllSymbols"

\* The search path was read and the custom search path was accepted.
DlPathsSet ==
    /\ Len(calls) >= 3
    /\ calls[2].fn = "SymGetSearchPath" /\ calls[2].ok
    /\ calls[3].fn = "SymSetSearchPath" /\ calls[3].ok

ModuleFns == {"GetModuleFileNameExW", "SymUnloadModule64", "SymLoadModuleEx"}

IsFileCall(c) == c.fn = "GetModuleFileNameExW"

FileCalls == SelectSeq(calls, IsFileCall)

\* C1: when reading the search path and setting the custom one both
\* succeeded, the last external call of SymDownloadAllSymbols, made after
\* every per-module call whatever their outcomes, is SymSetSearchPath with
\* the path the provider had before the call; when that call succeeds the
\* provider's search path is the pre-call one again.
C1_RestoresSearchPath ==
    (DlDone /\ DlPathsSet) =>
        LET last == calls[Len(calls)]
        IN  /\ Len(calls) >= 4
            /\ last.fn = "SymSetSearchPath"
            /\ last.path = in.searchPath
            /\ \A p \in 4..(Len(calls) - 1) : calls[p].fn \in ModuleFns
            /\ Len(FileCalls) = Len(provModules)
            /\ last.ok => searchPath = in.searchPath

\* C1 witness: two modules or more, an image-path lookup failed, and the
\* restore succeeded and put the pre-call path back.
C1_Witness ==
    /\ DlDone /\ DlPathsSet
    /\ Len(provModules) >= 2
    /\ \E p \in 1..Len(calls) : IsFileCall(calls[p]) /\ ~calls[p].ok
    /\ \E p \in 1..Len(calls) : calls[p].fn = "SymLoadModuleEx" /\ ~calls[p].ok
    /\ calls[Len(calls)].ok
    /\ searchPath = in.searchPath
    /\ searchPath # CustomSearchPath(in.SymbolStore)

\* C2: when the provider's enumeration succeeds and reports no module,
\* SymDownloadAllSymbols makes no further provider call (no get/set search
\* path, no unload, no load) and leaves the search path and the loaded
\* symbol tables as they were.
C2_EmptySnapshotNoMutation ==
    (op = "SymDownloadAllSymbols" /\ provModules = <<>> /\ calls[1].ok) =>
        /\ pc = "done"
        /\ calls = <<Call("SymEnumerateModules64", 0, "", TRUE)>>
        /\ searchPath = in.searchPath
        /\ symLoaded = in.symLoaded

\* C2 witness: the download ran on an empty snapshot.
C2_Witness ==
    /\ DlDone /\ provModules = <<>> /\ frame.modList = <<>>
    /\ calls[1].fn = "SymEnumerateModules64" /\ calls[1].ok
    /\ console = <<>>

\* C3: once the loop is entered, every module of the snapshot gets exactly
\* one image-path lookup, in snapshot order; an unload is made only right
\* after the successful lookup of the same module and a load only right
\* after its successful unload; a successful lookup is followed by the
\* unload and a successful unload by the load; a failed step is followed
\* by the next module's lookup or by the restore, never by a later step of
\* the same module.
C3_PerModuleSteps ==
    (DlDone /\ DlPathsSet) =>
        LET M == frame.modList
            n == Len(calls)
        IN  /\ Len(FileCalls) = Len(M)
            /\ \A j \in 1..Len(M) : FileCalls[j].base = M[j].base
            /\ \A p \in 4..n :
                /\ calls[p].fn = "SymUnloadModule64" =>
                       /\ IsFileCall(calls[p - 1]) /\ calls[p - 1].ok
                       /\ calls[p - 1].base = calls[p].base
                /\ calls[p].fn = "SymLoadModuleEx" =>
                       /\ calls[p - 1].fn = "SymUnloadModule64" /\ calls[p - 1].ok
                       /\ calls[p - 1].base = calls[p].base
                /\ (IsFileCall(calls[p]) /\ calls[p].ok) =>
                       /\ p < n /\ calls[p + 1].fn = "SymUnloadModule64"
                       /\ calls[p + 1].base = calls[p].base
                /\ (calls[p].fn = "SymUnloadModule64" /\ calls[p].ok) =>
                       /\ p < n /\ calls[p + 1].fn = "SymLoadModuleEx"
                       /\ calls[p + 1].base = calls[p].base
                /\ (calls[p].fn \in ModuleFns /\ ~calls[p].ok) =>
                       /\ p < n
                       /\ calls[p + 1].fn \in {"GetModuleFileNameExW", "SymSetSearchPath"}

\* C3 witness: the first module's unload failed and a later module was
\* still unloaded and reloaded.
C3_Witness ==
    /\ DlDone /\ DlPathsSet
    /\ Len(frame.modList) >= 2
    /\ calls[5].fn = "SymUnloadModule64" /\ ~calls[5].ok
    /\ \E p \in 6..Len(calls) :
          /\ calls[p].fn = "SymLoadModuleEx" /\ calls[p].ok
          /\ calls[p].base = frame.modList[2].base

GmlDone == pc = "done" /\ op = "SymGetModuleList"

\* C10: SymGetModuleList returns what the provider's enumeration call
\* returned; on success the vector holds its previous records followed by
\* exactly one record per reported module, in the provider's order, with
\* the reported base, and with an empty name where no name was resolved.
C10_ModuleListOrder ==
    GmlDone =>
        /\ out.ret = in.enumOk
        /\ in.enumOk =>
              LET old == Len(in.List)
              IN  /\ Len(out.List) = old + Len(provModules)
                  /\ SubSeq(out.List, 1, old) = in.List
                  /\ \A i \in 1..Len(provModules) :
                        /\ out.List[old + i].base = provModules[i]
                        /\ (provModules[i] \in in.unnamed) =>
                               out.List[old + i].name = <<>>
                        /\ (provModules[i] \notin in.unnamed) =>
                               out.List[old + i].name = <<"mod", provModules[i]>>

\* C10 witness: two modules or more, the first one without a name, kept
\* with an empty name in front of a named one.
C10_Witness ==
    /\ GmlDone /\ in.enumOk /\ out.ret
    /\ Len(provModules) >= 2
    /\ provModules[1] \in in.unnamed /\ provModules[2] \notin in.unnamed
    /\ Len(out.List) = Len(in.List) + Len(provModules)
    /\ out.List[Len(in.List) + 1].name = <<>>
    /\ out.List[Len(in.List) + 2].name # <<>>


(***************************************************************************)
(* Properties of SymEnum (under SpecEnum).                                 *)
(***************************************************************************)
EnumDone == pc = "done" /\ op = "SymEnum"

\* The name holds the substring "Ordinal".
ContainsOrdinal(name) ==
    \E i \in 1..Len(name) :
        /\ i + 6 <= Len(name)
        /\ name[i] = "O" /\ name[i + 1] = "r" /\ name[i + 2] = "d" /\ name[i + 3] = "i"
        /\ name[i + 4] = "n" /\ name[i + 5] = "a" /\ name[i + 6] = "l"

\* A reported symbol that is not an ordinal placeholder at the module base.
IsKept(s) == ~(ContainsOrdinal(s.info.Name) /\ s.info.Address = in.Base)

\* The symbols the provider handed to the callback in this enumeration.
Visited == IF in.enumOk THEN in.syms ELSE SubSeq(in.syms, 1, in.k)

\* C7: after a successful enumeration the records pushed to the sink are
\* the provider's symbols, in the provider's order, each once, without
\* those whose name holds "Ordinal" and whose address is the module base;
\* this is so whatever the sink returns.
C7_SinkGetsFilteredSequence ==
    (EnumDone /\ in.enumOk) =>
        LET kept == SelectSeq(in.syms, IsKept)
        IN  /\ Len(out.sunk) = Len(kept)
            /\ \A j \in 1..Len(kept) :
                  /\ out.sunk[j].addr = kept[j].info.Address
                  /\ out.sunk[j].decoratedSymbol = kept[j].info.Name

\* C7 witness: an ordinal at the module base is dropped, a symbol holding
\* "Ordinal" behind the base is delivered, and the sink answered FALSE.
C7_Witness ==
    /\ EnumDone /\ in.enumOk /\ ~in.sinkRet
    /\ Len(in.syms) = 2
    /\ ContainsOrdinal(in.syms[1].info.Name) /\ in.syms[1].info.Address = in.Base
    /\ ContainsOrdinal(in.syms[2].info.Name) /\ in.syms[2].info.Address # in.Base
    /\ Len(out.sunk) = 1
    /\ out.sunk[1].addr = in.syms[2].info.Address

\* C8: every record pushed to the sink carries the provider's address and
\* decorated name; its undecorated name is the demangled text when the
\* undecoration succeeded with a text other than the decorated name, and
\* is null (not an empty string) otherwise.
C8_UndecoratedField ==
    EnumDone =>
        LET kept == SelectSeq(Visited, IsKept)
        IN  \A j \in 1..Len(out.sunk) :
              /\ j <= Len(kept)
              /\ LET rec == out.sunk[j]
                     name == kept[j].info.Name
                     u == SafeUnDecorateSymbolName(name, kept[j].und)
                 IN  /\ rec.addr = kept[j].info.Address
                     /\ rec.decoratedSymbol = name
                     /\ (u.ok /\ u.text # name) =>
                            rec.undecoratedSymbol = [null |-> FALSE, text |-> u.text]
                     /\ ~(u.ok /\ u.text # name) =>
                            rec.undecoratedSymbol = [null |-> TRUE, text |-> <<>>]

\* C8 witness: one delivered record with a demangled name, one whose
\* undecoration gave the decorated name back and has none.
C8_Witness ==
    /\ EnumDone /\ Len(out.sunk) = 2
    /\ in.syms[1].und = "diff" /\ ~out.sunk[1].undecoratedSymbol.null
    /\ out.sunk[1].undecoratedSymbol.text = Demangled
    /\ in.syms[2].und = "same" /\ out.sunk[2].undecoratedSymbol.null

(***************************************************************************)
(* Properties of SymGetSymbolicName (under SpecName).                      *)
(***************************************************************************)
NameDone == pc = "done" /\ op = "SymGetSymbolicName"

\* The label the resolver is to render for the inputs of the call: the
\* user label; without one, the provider's name cut to MaxNameLen - 1
\* characters, undecorated when the toggle is set and that succeeds.
ExpectedLabel ==
    IF ~in.lab.null THEN in.lab.text
    ELSE LET n == in.sym.Name
             name == IF Len(n) >= MaxNameLen THEN SubSeq(n, 1, MaxNameLen - 1) ELSE n
         IN  IF in.bUndecorateSymbolNames /\ in.und = "diff" THEN Demangled ELSE name

\* C4: with a user label at the address the result renders that label
\* ("mod.label" or "<label>"), whatever the provider's symbol, its
\* displacement and the undecorate toggle are, and the provider's lookup by
\* address is not called.
C4_UserLabelFirst ==
    (NameDone /\ ~in.lab.null) =>
        /\ ~out.null
        /\ out.text = IF in.mod.ok THEN in.mod.name \o <<".">> \o in.lab.text
                      ELSE <<"<">> \o in.lab.text \o <<">">>
        /\ \A p \in 1..Len(calls) : calls[p] # "SafeSymFromAddr"

\* C4 witness: a user label and an exact provider symbol at one address,
\* undecoration on; the label is rendered.
C4_Witness ==
    /\ NameDone /\ ~in.lab.null
    /\ in.sym.ok /\ in.sym.displacement = 0 /\ in.bUndecorateSymbolNames
    /\ in.und = "diff" /\ in.mod.ok
    /\ out.text = in.mod.name \o <<".">> \o in.lab.text

\* C5: without a user label the result is absent exactly when the
\* provider's lookup fails or reports a nonzero displacement; a provider
\* symbol is rendered only for a successful lookup with displacement 0.
C5_AbsentUnlessExactHit ==
    (NameDone /\ in.lab.null) =>
        /\ (~in.sym.ok \/ in.sym.displacement # 0) => out.null
        /\ (in.sym.ok /\ in.sym.displacement = 0) => ~out.null

\* C5 witness: no user label, the nearest symbol 8 bytes before the
\* address; no name is returned.
C5_Witness ==
    /\ NameDone /\ in.lab.null
    /\ in.sym.ok /\ in.sym.displacement = 8 /\ in.Address = 4104
    /\ out.null

\* C6 as claimed: the rendered string is "module.label" with a module name
\* and the label wrapped in two pairs of angle brackets without one.
C6_Original_DoubleBrackets ==
    (NameDone /\ ~out.null) =>
        out.text = IF in.mod.ok THEN in.mod.name \o <<".">> \o ExpectedLabel
                   ELSE <<"<", "<">> \o ExpectedLabel \o <<">", ">">>

\* C6 (amended): the rendered string is "module.label" when the module
\* collaborator resolves a module name for the address, else the label
\* wrapped in one pair of angle brackets, "<label>".
C6_RenderedName ==
    (NameDone /\ ~out.null) =>
        out.text = IF in.mod.ok THEN in.mod.name \o <<".">> \o ExpectedLabel
                   ELSE <<"<">> \o ExpectedLabel \o <<">">>

\* C6 witness: a label from the provider, no module name: "<g>".
C6_Witness ==
    /\ NameDone /\ in.lab.null /\ ~in.mod.ok
    /\ in.sym.ok /\ in.sym.displacement = 0 /\ in.sym.Name = <<"g">>
    /\ in.und = "fail"
    /\ out = [null |-> FALSE, text |-> <<"<", "g", ">">>]

(***************************************************************************)
(* Properties of SymGetSourceLine (under SpecLine).                        *)
(***************************************************************************)
LineDone == pc = "done" /\ op = "SymGetSourceLine"

\* The reported file path as the caller sees it (UTF-8).
Reported == Utf16ToUtf8(in.FileName)

\* The directory of the module's debug file: the path up to and including
\* its last backslash, the whole path when it has none.
DebugFileDirectory ==
    LET p == in.LoadedPdbName
        slashes == {k \in 1..Len(p) : p[k] = "\\"}
    IN  IF slashes = {} THEN p
        ELSE SubSeq(p, 1, CHOOSE k \in slashes : \A m \in slashes : m <= k)

LineReported == in.wantLine => out.Line = [set |-> TRUE, value |-> in.LineNumber]

\* C9 as claimed, for a reported path of at least one character: a path
\* whose second character is the drive separator is returned unchanged,
\* any other one is prefixed with the debug file's directory, and the call
\* fails when the module-info query fails.
C9_Original_SecondCharOnly ==
    (LineDone /\ in.lineOk /\ in.wantFile /\ Len(Reported) >= 1) =>
        IF Len(Reported) >= 2 /\ Reported[2] = ":"
        THEN out.ret /\ out.FileName = [null |-> FALSE, text |-> Reported] /\ LineReported
        ELSE /\ in.modOk => /\ out.ret
                            /\ out.FileName = [null |-> FALSE,
                                               text |-> DebugFileDirectory \o Reported]
             /\ ~in.modOk => ~out.ret

\* C9 (amended): with line data and a file name requested, a reported path
\* whose second character is ':' and whose third is '\' is returned
\* unchanged with the reported line number; any other path of at least one
\* character is returned behind the directory of the module's debug file
\* when the module-info query succeeds, and the call fails when that query
\* fails.
C9_SourceLinePath ==
    (LineDone /\ in.lineOk /\ in.wantFile /\ Len(Reported) >= 1) =>
        IF Len(Reported) >= 3 /\ Reported[2] = ":" /\ Reported[3] = "\\"
        THEN out.ret /\ out.FileName = [null |-> FALSE, text |-> Reported] /\ LineReported
        ELSE /\ in.modOk => /\ out.ret
                            /\ out.FileName = [null |-> FALSE,
                                               text |-> DebugFileDirectory \o Reported]
                            /\ LineReported
             /\ ~in.modOk => ~out.ret

\* C9 witness: "foo.c" with the debug file "C:\sym\app.pdb" gives
\* "C:\sym\foo.c" and line 42.
C9_Witness ==
    /\ LineDone /\ out.ret
    /\ in.FileName = <<"f", "o", "o", ".", "c">>
    /\ in.LoadedPdbName =
           <<"C", ":", "\\", "s", "y", "m", "\\", "a", "p", "p", ".", "p", "d", "b">>
    /\ out.FileName.text = <<"C", ":", "\\", "s", "y", "m", "\\", "f", "o", "o", ".", "c">>
    /\ out.Line = [set |-> TRUE, value |-> 42]

====
